---- MODULE Spec2Model ----
(***************************************************************************)
(* vc-events: the vCenter event serializer (event_to_name_value), the      *)
(* property-collector subscription (PcFilter) and the delivery loop        *)
(* (create_event_publisher / main) that publishes events to RabbitMQ.      *)
(*                                                                         *)
(* Text is a sequence of non-empty tokens; the empty Python string is the  *)
(* empty sequence, and the quote characters are tokens of their own.       *)
(***************************************************************************)
EXTENDS Integers, Sequences, FiniteSets, TLC

(***************************************************************************)
(* Bounds of the model.                                                    *)
(***************************************************************************)
MaxItems == 3
MaxArrivals == 2

(***************************************************************************)
(* Python values.                                                          *)
(***************************************************************************)
\* pyVmomi.VmomiSupport.F_LINK, the lowest bit of a property's flags
F_LINK == 1

PyNone == [t |-> "None"]
PyStr(s) == [t |-> "str", s |-> s]
PyDict(m) == [t |-> "dict", m |-> m]
PyRaise(e) == [t |-> "raise", exc |-> e]

EmptyMap == [x \in {} |-> PyNone]

\* dict.update({k: v}): the key is added, or its value replaced
DictUpdate(m, k, v) == [x \in (DOMAIN m) \cup {k} |-> IF x = k THEN v ELSE m[x]]

\* Python truth value of a serialized result (the tests "if res_val:")
Truthy(v) ==
    CASE v.t = "None" -> FALSE
      [] v.t = "str" -> v.s # <<>>
      [] v.t = "dict" -> DOMAIN v.m # {}
      [] OTHER -> TRUE

\* flags & F_LINK
HasLink(flags) == (flags \div F_LINK) % 2 = 1

\* str(x) of an attribute interpolated by an f-string: None renders as "None"
Fmt(x) == IF x = PyNone THEN <<"None">> ELSE x.s

(***************************************************************************)
(* repr(val).strip("'") of the final else branch.                          *)
(***************************************************************************)
HasTok(s, c) == \E i \in 1..Len(s) : s[i] = c

RECURSIVE EscapeQuotes(_)
EscapeQuotes(s) ==
    IF s = <<>> THEN <<>>
    ELSE (IF Head(s) = "'" THEN <<"\\", "'">> ELSE <<Head(s)>>) \o EscapeQuotes(Tail(s))

\* repr of a str: double quotes when it holds ' and no ", single quotes otherwise
ReprStr(s) ==
    IF HasTok(s, "'") /\ ~HasTok(s, "\"")
    THEN <<"\"">> \o s \o <<"\"">>
    ELSE <<"'">> \o EscapeQuotes(s) \o <<"'">>

RECURSIVE LStrip(_)
LStrip(s) == IF s # <<>> /\ Head(s) = "'" THEN LStrip(Tail(s)) ELSE s

RECURSIVE RStrip(_)
RStrip(s) ==
    IF s # <<>> /\ s[Len(s)] = "'" THEN RStrip(SubSeq(s, 1, Len(s) - 1)) ELSE s

Strip(s) == RStrip(LStrip(s))

\* repr of the values that reach the else branch: str and int
Repr(val) == IF val.k = "str" THEN ReprStr(val.s) ELSE <<ToString(val.n)>>

(***************************************************************************)
(* event_to_name_value                                                     *)
(***************************************************************************)
\* "%02d" of a number below 100
Pad2(n) == IF n < 10 THEN "0" \o ToString(n) ELSE ToString(n)

\* Iso8601.ISO8601Format of a datetime without tzinfo and microseconds
ISO8601Format(val) ==
    <<ToString(val.year), "-", Pad2(val.month), "-", Pad2(val.day), "T",
      Pad2(val.hour), ":", Pad2(val.minute), ":", Pad2(val.second), "Z">>

\* the branch "elif isinstance(val, binary)": str(result, "utf-8") reads the
\* local result before any assignment to it
BinaryBranch(val) == PyRaise("UnboundLocalError")

\* the two identity formats the other way round
ManagedObjectBranch_Swapped(val) ==
    IF val.serverGuid # PyNone
    THEN PyStr(<<val.cls, ":">> \o Fmt(val.moId))
    ELSE PyStr(<<val.cls, ":">> \o Fmt(val.serverGuid) \o <<":">> \o Fmt(val.moId))

\* the ManagedObject branch
ManagedObjectBranch(val) ==
    IF val.serverGuid = PyNone
    THEN PyStr(<<val.cls, ":">> \o Fmt(val.moId))
    ELSE PyStr(<<val.cls, ":">> \o Fmt(val.serverGuid) \o <<":">> \o Fmt(val.moId))

\* the DataObject branch with F_LINK set
LinkBranch(val) == PyStr(<<val.cls, ":">> \o Fmt(val.key))

\* a boolean rendered as Python prints it
BoolBranch_Repr(val) == IF val.b THEN PyStr(<<"True">>) ELSE PyStr(<<"False">>)

\* the bool branch: "true" if val else "false"
BoolBranch(val) == IF val.b THEN PyStr(<<"true">>) ELSE PyStr(<<"false">>)

\* any flag bit taken for F_LINK
IsLink_AnyFlag(info) == info.flags # 0

\* the test that sends a DataObject to the identity string
IsLink(info) == HasLink(info.flags)

\* "if res_val is not None" in place of the truth test
Keep_NotNone(res_val) == res_val # PyNone

\* the test "if res_val:" guarding result.update in both loops
Keep(res_val) == Truthy(res_val)

\* the counter left where it is after a store
ListStore_NoIncrement(st, res_name, res_val) ==
    IF res_name = ""
    THEN <<DictUpdate(st[1], "data" \o ToString(st[2]), res_val), st[2]>>
    ELSE st

\* the list loop's body once res_val is kept: st is <<result, name_count>>
ListStore(st, res_name, res_val) ==
    IF res_name = ""
    THEN <<DictUpdate(st[1], "data" \o ToString(st[2]), res_val), st[2] + 1>>
    ELSE st

RECURSIVE event_to_name_value(_, _, _)
RECURSIVE PropLoop(_, _, _, _)
RECURSIVE ListLoop(_, _, _, _)

\* for prop in val._GetPropertyList(): an exception of a nested call propagates
PropLoop(props, i, result, indent) ==
    IF i > Len(props) THEN PyDict(result)
    ELSE LET r == event_to_name_value(props[i].val,
                                      [name |-> props[i].name, flags |-> props[i].flags],
                                      indent + 1)
         IN  IF r[2].t = "raise" THEN r[2]
             ELSE IF Keep(r[2])
                  THEN PropLoop(props, i + 1, DictUpdate(result, r[1], r[2]), indent)
                  ELSE PropLoop(props, i + 1, result, indent)

\* for obj in val: st is <<result, name_count>>
ListLoop(items, i, st, ctx) ==
    IF i > Len(items) THEN PyDict(st[1])
    ELSE LET r == event_to_name_value(items[i], ctx.item, ctx.indent + 1)
         IN  IF r[2].t = "raise" THEN r[2]
             ELSE IF Keep(r[2])
                  THEN ListLoop(items, i + 1, ListStore(st, r[1], r[2]), ctx)
                  ELSE ListLoop(items, i + 1, st, ctx)

event_to_name_value(val, info, indent) ==
    LET name == IF info.name # "" THEN info.name ELSE ""
        result ==
          CASE val.k = "None" -> PyNone
            [] val.k = "DataObject" ->
                 IF IsLink(info) THEN LinkBranch(val)
                 ELSE PropLoop(val.props, 1, EmptyMap, indent)
            [] val.k = "ManagedObject" -> ManagedObjectBranch(val)
            [] val.k = "list" ->
                 IF val.items # <<>>
                 THEN ListLoop(val.items, 1, <<EmptyMap, 1>>,
                               [item |-> [name |-> "", flags |-> info.flags],
                                indent |-> indent])
                 ELSE PyNone
            [] val.k = "type" -> PyStr(<<val.name>>)
            [] val.k = "UnknownManagedMethod" -> PyStr(<<val.name>>)
            [] val.k = "ManagedMethod" -> PyStr(<<val.type, ".", val.name>>)
            [] val.k = "bool" -> BoolBranch(val)
            [] val.k = "datetime" -> PyStr(ISO8601Format(val))
            [] val.k = "binary" -> BinaryBranch(val)
            [] OTHER -> PyStr(Strip(Repr(val)))
    IN  <<name, result>>

\* the default descriptor Object(name="", type=object, flags=0)
DefaultInfo == [name |-> "", flags |-> 0]

(***************************************************************************)
(* get_event_id, create_event_message, send_rabbit_message                 *)
(***************************************************************************)
\* getattr(val, name) on a DataObject
GetAttr(val, name) ==
    LET i == CHOOSE j \in 1..Len(val.props) : val.props[j].name = name
    IN  val.props[i].val

\* isinstance(event, vim.event.EventEx)
IsEventEx(event) == event.cls = "vim.event.EventEx"

\* the type name taken for every event
get_event_id_TypeOnly(event) == <<event.cls>>

get_event_id(event) ==
    IF IsEventEx(event) THEN GetAttr(event, "eventTypeId").s ELSE <<event.cls>>

\* {**a, **b}: the keys of b win
DictMerge(a, b) ==
    [x \in (DOMAIN a) \cup (DOMAIN b) |-> IF x \in DOMAIN b THEN b[x] ELSE a[x]]

create_event_message(event_dict, event, vcenter_name) ==
    LET event_id == get_event_id(event)
        event_id_dict == [x \in {"vcenter", "event_id"} |->
                            IF x = "vcenter" THEN PyStr(vcenter_name) ELSE PyStr(event_id)]
    IN  DictMerge(event_id_dict, event_dict)

\* a JSON document: a literal's text, or an object's members by quoted key
\* (the order of the members is not kept)
JsonText(s) == [j |-> "text", s |-> s]
JsonObject(members) == [j |-> "object", members |-> members]

\* the body of a JSON string literal: quote and backslash are escaped
RECURSIVE JsonEscape(_)
JsonEscape(s) ==
    IF s = <<>> THEN <<>>
    ELSE (IF Head(s) \in {"\"", "\\"} THEN <<"\\", Head(s)>> ELSE <<Head(s)>>)
         \o JsonEscape(Tail(s))

JsonString(s) == <<"\"">> \o JsonEscape(s) \o <<"\"">>

\* json.dumps of None, a str or a dict of these
RECURSIVE JsonDumps(_)
JsonDumps(v) ==
    CASE v.t = "None" -> JsonText(<<"null">>)
      [] v.t = "str" -> JsonText(JsonString(v.s))
      [] v.t = "dict" ->
           JsonObject([q \in {JsonString(<<x>>) : x \in DOMAIN v.m} |->
                         JsonDumps(v.m[q[2]])])

\* the arguments of channel.basic_publish in send_rabbit_message
PublishArgs(event_message) ==
    [routing_key |-> event_message["event_id"], body |-> JsonDumps(PyDict(event_message))]

\* the keys send_rabbit_message reads for logger.debug after the publish
LoggedKeys == {"vcenter", "event_id", "fullFormattedMessage"}

(***************************************************************************)
(* Values of the remote object model.                                      *)
(***************************************************************************)
NNone == [k |-> "None"]
NBool(b) == [k |-> "bool", b |-> b]
NStr(s) == [k |-> "str", s |-> s]
NInt(n) == [k |-> "int", n |-> n]
NBinary(bytes) == [k |-> "binary", bytes |-> bytes]
NType(name) == [k |-> "type", name |-> name]
NMethod(type, name) == [k |-> "ManagedMethod", type |-> type, name |-> name]
NUnknownMethod(name) == [k |-> "UnknownManagedMethod", name |-> name]
NMo(cls, serverGuid, moId) ==
    [k |-> "ManagedObject", cls |-> cls, serverGuid |-> serverGuid, moId |-> moId]
NList(items) == [k |-> "list", items |-> items]
NDatetime(y, mo, d, h, mi, sec) ==
    [k |-> "datetime", year |-> y, month |-> mo, day |-> d, hour |-> h, minute |-> mi,
     second |-> sec]
NData(cls, key, props) == [k |-> "DataObject", cls |-> cls, key |-> key, props |-> props]
Prop(name, flags, val) == [name |-> name, flags |-> flags, val |-> val]

\* sequences over S of length 0..n
SeqsUpTo(S, n) == UNION {[1..m -> S] : m \in 0..n}

LocalRef == NMo("vim.VirtualMachine", PyNone, PyStr(<<"vm-1">>))
CrossRef == NMo("vim.VirtualMachine", PyStr(<<"guid-1">>), PyStr(<<"vm-1">>))

Prims ==
    {NNone, NBool(TRUE), NBool(FALSE), NStr(<<>>), NStr(<<"a">>), NStr(<<"'">>),
     NStr(<<"'", "a", "'">>), NInt(0), NType("vim.Folder"),
     NMethod("vim.VirtualMachine", "powerOn"), NUnknownMethod("reload"),
     NDatetime(2024, 2, 29, 7, 5, 0), NBinary(<<97>>), NBinary(<<255>>)}

Refs ==
    {NMo(cls, g, PyStr(<<id>>)) :
        cls \in {"vim.VirtualMachine", "vim.HostSystem"},
        g \in {PyNone, PyStr(<<"guid-1">>)},
        id \in {"vm-1", "host-2"}}

Leaves == Prims \cup Refs \cup {NList(<<>>)}

FlatVals == {NNone, NStr(<<>>), NStr(<<"a">>), NBool(FALSE), LocalRef}

\* composites whose fields are leaves
FlatData ==
    {NData("vim.vm.Info", key, props) :
        key \in {PyNone, PyStr(<<"7">>)},
        props \in {<<>>} \cup {<<Prop("a", 0, v)>> : v \in FlatVals}
                  \cup {<<Prop("a", 0, v), Prop("b", 0, w)>> : v, w \in FlatVals}}

DEmpty == NData("vim.vm.Info", PyNone, <<>>)
DFull == NData("vim.vm.Info", PyStr(<<"7">>), <<Prop("a", 0, NStr(<<"a">>))>>)
DNull == NData("vim.vm.Info", PyStr(<<"7">>), <<Prop("a", 0, NNone)>>)

Elems == {NNone, NStr(<<>>), NStr(<<"a">>), NBool(FALSE), DEmpty, DFull}

\* sequences of anonymous elements
FlatLists == {NList(items) : items \in SeqsUpTo(Elems, MaxItems)}

NestedVals ==
    {DEmpty, DFull, DNull, NList(<<>>), NList(<<DEmpty>>), NList(<<DFull, DEmpty, DFull>>),
     NList(<<NList(<<NStr(<<"a">>)>>), NList(<<>>)>>), NStr(<<"a">>), CrossRef,
     NBinary(<<97>>)}

\* composites whose fields are composites, sequences and links
NestedData ==
    {NData("vim.vm.Summary", PyStr(<<"9">>), props) :
        props \in {<<Prop("a", f, v)>> : f \in {0, F_LINK}, v \in NestedVals}
                  \cup {<<Prop("a", f, v), Prop("b", g, w)>> :
                          f \in {0, F_LINK}, g \in {0, F_LINK}, v \in NestedVals,
                          w \in NestedVals}}

\* events: a body field may be named like a routing key of the envelope
EventNodes ==
    {NData(cls, PyStr(<<"1">>),
           <<Prop("eventTypeId", 0, NStr(<<"com.vmware.vc.HA.Failed">>)),
             Prop("fullFormattedMessage", 0, m), Prop(n, 0, v)>>) :
        cls \in {"vim.event.VmPoweredOnEvent", "vim.event.EventEx"},
        m \in {NStr(<<>>), NStr(<<"VM X powered on">>)},
        n \in {"userName", "vcenter", "event_id"},
        v \in {NStr(<<>>), NStr(<<"root">>), DFull}}

\* booleans as fields and elements, one and two levels down
BoolNests ==
    UNION {{NData("vim.vm.Info", PyNone, <<Prop("on", 0, NBool(b))>>),
            NList(<<NBool(b), NBool(c)>>),
            NData("vim.vm.Summary", PyNone,
                  <<Prop("cfg", 0, NData("vim.vm.Info", PyNone,
                                         <<Prop("on", 0, NBool(b)),
                                           Prop("flags", 0, NList(<<NBool(c)>>))>>))>>)} :
           b, c \in BOOLEAN}

SerInputs == Leaves \cup FlatData \cup FlatLists \cup NestedData \cup EventNodes \cup BoolNests

\* descriptors: the flag bits are F_LINK and F_LINKABLE
SerInfos == {[name |-> n, flags |-> f] : n \in {"", "p"}, f \in 0..3}

\* os.environ.get("VCENTER")
VcenterName == <<"vc01">>

(***************************************************************************)
(* State.                                                                  *)
(***************************************************************************)
VARIABLES
    pc,          \* position of main / create_event_publisher
    exc,         \* the exception propagating out of the loop, "none" if none
    session,     \* PcFilter.pc, the property collector made by __init__
    pcFilter,    \* PcFilter.pcFilter, the filter made by __enter__
    version,     \* PcFilter.version
    collector,   \* the event collector made by main
    avail,       \* the events the collector holds, oldest first
    cursor,      \* how many of them ReadNext has returned
    srvVersion,  \* the server's version of the watched property latestPage
    arrivals,    \* how many times events have arrived
    updt,        \* the loop's local updt
    new_events,  \* the loop's local new_events
    idx,         \* position of the for loop in new_events
    published,   \* the basic_publish calls the broker accepted, in order
    lastUpdate,  \* version carried by the last non-null WaitForUpdatesEx answer
    baseLen,     \* events the collector held when the baseline wait returned, -1 before
    waits,       \* wait calls that have returned, counted up to 2
    seenLen,     \* events the collector held when the last non-null loop wait returned
    released,    \* the Destroy calls __exit__ has made, in order
    serPc,       \* position of the serializer harness
    serVal,      \* its input value
    serInfo,     \* its input descriptor
    serRet,      \* what event_to_name_value returned
    serMsg       \* what create_event_message returned

loopVars == <<pc, exc, session, pcFilter, version, collector, avail, cursor, srvVersion,
              arrivals, updt, new_events, idx, published, lastUpdate, baseLen, waits,
              seenLen, released>>
serVars == <<serPc, serVal, serInfo, serRet, serMsg>>
vars == <<loopVars, serVars>>

\* event_collector.ReadNext(100)
PageSize == 100

\* the most events the collector comes to hold: one burst and single events
MaxEvents == PageSize + MaxArrivals

\* the version token of the server's n-th state of the watched property
Tok(n) == ToString(n)

Update(v) == [t |-> "update", version |-> v]

EventKinds == {"plain", "quiet", "blob", "ex"}

\* the event with key n of a kind
EventOf(kind, n) ==
    NData(IF kind = "ex" THEN "vim.event.EventEx" ELSE "vim.event.VmPoweredOnEvent",
          PyStr(<<ToString(n)>>),
          <<Prop("key", 0, NInt(n)),
            Prop("fullFormattedMessage", 0,
                 IF kind = "quiet" THEN NStr(<<>>) ELSE NStr(<<"VM X powered on">>))>>
          \o (IF kind = "ex"
              THEN <<Prop("eventTypeId", 0, NStr(<<"com.vmware.vc.HA.Failed">>))>>
              ELSE <<>>)
          \o (IF kind = "blob" THEN <<Prop("data", 0, NBinary(<<97>>))>> ELSE <<>>))

\* state after main has created the collector and the channel
LoopInit ==
    /\ pc = "construct"
    /\ exc = "none"
    /\ session = "none"
    /\ pcFilter = "None"
    /\ version = ""
    /\ collector = "alive"
    /\ avail = <<>>
    /\ cursor = 0
    /\ srvVersion = 1
    /\ arrivals = 0
    /\ updt = PyNone
    /\ new_events = <<>>
    /\ idx = 0
    /\ published = <<>>
    /\ lastUpdate = ""
    /\ baseLen = -1
    /\ waits = 0
    /\ seenLen = 0
    /\ released = <<>>

SerIdle ==
    /\ serPc = "idle"
    /\ serVal = NNone
    /\ serInfo = DefaultInfo
    /\ serRet = <<"", PyNone>>
    /\ serMsg = EmptyMap

Init == LoopInit /\ SerIdle

(***************************************************************************)
(* The remote services.                                                    *)
(***************************************************************************)
\* what WaitForUpdatesEx(ver, options) can answer: a fault, the current
\* version when it differs from ver, null when nothing changed
WaitAnswers(ver) ==
    {PyRaise("vmodl.fault")}
    \cup (IF ver # Tok(srvVersion) THEN {Update(Tok(srvVersion))} ELSE {PyNone})

\* what ReadNext(n) returns: the next events after the cursor, at most n
Page(n) == SubSeq(avail, cursor + 1, IF cursor + n < Len(avail) THEN cursor + n ELSE Len(avail))

\* events arrive in the collector, one or a burst larger than a page
Arrive ==
    /\ collector = "alive"
    /\ arrivals < MaxArrivals
    /\ \E kind \in EventKinds, n \in {1, PageSize + 1} :
         /\ n > 1 => kind = "plain"
         /\ Len(avail) + n <= MaxEvents
         /\ avail' = avail \o [i \in 1..n |-> EventOf(kind, Len(avail) + i)]
    /\ srvVersion' = srvVersion + 1
    /\ arrivals' = arrivals + 1
    /\ UNCHANGED <<pc, exc, session, pcFilter, version, collector, cursor, updt, new_events,
                   idx, published, lastUpdate, baseLen, waits, seenLen,
                   released, serVars>>

(***************************************************************************)
(* PcFilter                                                                *)
(***************************************************************************)
\* PcFilter.__init__ as called by the with statement
Construct ==
    /\ pc = "construct"
    /\ \/ /\ session' = "alive"
          /\ pcFilter' = "None"
          /\ version' = ""
          /\ pc' = "enter"
          /\ exc' = exc
       \/ /\ exc' = "vmodl.fault"
          /\ pc' = "finally"
          /\ UNCHANGED <<session, pcFilter, version>>
    /\ UNCHANGED <<collector, avail, cursor, srvVersion, arrivals, updt, new_events, idx,
                   published, lastUpdate, baseLen, waits, seenLen,
                   released, serVars>>

\* PcFilter.__enter__: when CreateFilter raises, __exit__ is not run
Enter ==
    /\ pc = "enter"
    /\ \/ /\ pcFilter' = "alive"
          /\ pc' = "baseline"
          /\ exc' = exc
       \/ /\ exc' = "vmodl.fault"
          /\ pc' = "finally"
          /\ pcFilter' = pcFilter
    /\ UNCHANGED <<session, version, collector, avail, cursor, srvVersion, arrivals, updt,
                   new_events, idx, published, lastUpdate, baseLen, waits, seenLen,
                   released, serVars>>

\* the version reset by a null answer
PcWaitVersion_ResetOnNull(ver, update) == IF update # PyNone THEN update.version ELSE ""

\* PcFilter.wait after WaitForUpdatesEx answered update: the new self.version
PcWaitVersion(ver, update) == IF update # PyNone THEN update.version ELSE ver

\* the session destroyed before the filter
ExitCalls_SessionFirst(f, p) ==
    (IF p # "none" THEN <<"pc.Destroy">> ELSE <<>>)
    \o (IF f # "None" THEN <<"pcFilter.Destroy">> ELSE <<>>)

\* the Destroy calls of __exit__ for filter f and session p, in call order
ExitCalls(f, p) ==
    (IF f # "None" THEN <<"pcFilter.Destroy">> ELSE <<>>)
    \o (IF p # "none" THEN <<"pc.Destroy">> ELSE <<>>)

\* __exit__ returning after the filter's Destroy
Exit_SkipSession ==
    /\ pc = "exit"
    /\ pcFilter' = IF pcFilter # "None" THEN "destroyed" ELSE pcFilter
    /\ session' = session
    /\ released' = released \o (IF pcFilter # "None" THEN <<"pcFilter.Destroy">> ELSE <<>>)
    /\ pc' = "finally"
    /\ UNCHANGED <<exc, version, collector, avail, cursor, srvVersion, arrivals, updt,
                   new_events, idx, published, lastUpdate, baseLen, waits, seenLen, serVars>>

\* PcFilter.__exit__
Exit ==
    /\ pc = "exit"
    /\ pcFilter' = IF pcFilter # "None" THEN "destroyed" ELSE pcFilter
    /\ session' = IF session # "none" THEN "destroyed" ELSE session
    /\ released' = released \o ExitCalls(pcFilter, session)
    /\ pc' = "finally"
    /\ UNCHANGED <<exc, version, collector, avail, cursor, srvVersion, arrivals, updt,
                   new_events, idx, published, lastUpdate, baseLen, waits, seenLen, serVars>>

(***************************************************************************)
(* create_event_publisher and main                                         *)
(***************************************************************************)
\* an exception raised inside the with block: __exit__ runs next
Raised(e) ==
    /\ exc' = e
    /\ pc' = "exit"

\* one more wait call has returned
Returned(n) == IF n < 2 THEN n + 1 ELSE n

\* the version cleared when WaitForUpdatesEx raises
WaitRaised_Reset(e) ==
    /\ Raised(e)
    /\ version' = ""

\* WaitForUpdatesEx raises inside PcFilter.wait: nothing is caught or assigned
WaitRaised(e) ==
    /\ Raised(e)
    /\ version' = version

\* the baseline result handled like any other
AfterBaseline_Read(r) == IF r # PyNone THEN "read" ELSE "wait"

\* where the loop goes after the baseline pc.wait(): its result is dropped
AfterBaseline(r) == "wait"

\* the page read after every wait
AfterWait_AlwaysRead(r) == "read"

\* the test "if updt is not None"
AfterWait(r) == IF r # PyNone THEN "read" ELSE "wait"

\* pc.wait() before the loop
BaselineWait ==
    /\ pc = "baseline"
    /\ \E r \in WaitAnswers(version) :
         IF r.t = "raise"
         THEN /\ WaitRaised(r.exc)
              /\ UNCHANGED <<lastUpdate, baseLen, waits>>
         ELSE /\ version' = PcWaitVersion(version, r)
              /\ lastUpdate' = IF r.t = "update" THEN r.version ELSE lastUpdate
              /\ baseLen' = Len(avail)
              /\ waits' = Returned(waits)
              /\ pc' = AfterBaseline(r)
              /\ exc' = exc
    /\ UNCHANGED <<session, pcFilter, collector, avail, cursor, srvVersion, arrivals, updt,
                   new_events, idx, published, seenLen, released, serVars>>

\* updt = pc.wait() and the test "if updt is not None"
LoopWait ==
    /\ pc = "wait"
    /\ \E r \in WaitAnswers(version) :
         IF r.t = "raise"
         THEN /\ WaitRaised(r.exc)
              /\ UNCHANGED <<lastUpdate, updt, waits, seenLen>>
         ELSE /\ version' = PcWaitVersion(version, r)
              /\ lastUpdate' = IF r.t = "update" THEN r.version ELSE lastUpdate
              /\ updt' = r
              /\ waits' = Returned(waits)
              /\ seenLen' = IF r # PyNone THEN Len(avail) ELSE seenLen
              /\ pc' = AfterWait(r)
              /\ exc' = exc
    /\ UNCHANGED <<session, pcFilter, collector, avail, cursor, srvVersion, arrivals,
                   new_events, idx, published, baseLen, released, serVars>>

\* new_events = event_collector.ReadNext(100) and the test "if new_events"
ReadNext ==
    /\ pc = "read"
    /\ \/ /\ new_events' = Page(PageSize)
          /\ cursor' = cursor + Len(Page(PageSize))
          /\ idx' = 1
          /\ pc' = IF Page(PageSize) # <<>> THEN "publish" ELSE "wait"
          /\ exc' = exc
       \/ /\ Raised("vmodl.fault")
          /\ UNCHANGED <<new_events, cursor, idx>>
    /\ UNCHANGED <<session, pcFilter, version, collector, avail, srvVersion, arrivals, updt,
                   published, lastUpdate, baseLen, waits, seenLen,
                   released, serVars>>

\* the for loop left after its first pass
Advance_Break(i) ==
    /\ idx' = i + 1
    /\ pc' = "wait"
    /\ exc' = exc

\* the for loop moves on after the event at position i, or the while loop
\* goes back to pc.wait()
Advance(i) ==
    /\ idx' = i + 1
    /\ pc' = IF i < Len(new_events) THEN "publish" ELSE "wait"
    /\ exc' = exc

\* the publish tried again after basic_publish raised
PublishFailed_Retry ==
    /\ exc' = "pika.exceptions.AMQPError"
    /\ pc' = "publish"
    /\ UNCHANGED <<published, idx>>

\* basic_publish raises: nothing in the loop catches it
PublishFailed ==
    /\ Raised("pika.exceptions.AMQPError")
    /\ UNCHANGED <<published, idx>>

\* one pass of the for loop: serialize, envelope, send_rabbit_message
PublishEvent ==
    /\ pc = "publish"
    /\ LET event == new_events[idx]
           event_dict == event_to_name_value(event, DefaultInfo, 4)
           event_message == create_event_message(event_dict[2].m, event, VcenterName)
       IN  IF event_dict[2].t = "raise"
           THEN /\ Raised(event_dict[2].exc)
                /\ UNCHANGED <<published, idx>>
           ELSE \/ PublishFailed
                \/ /\ published' = Append(published, PublishArgs(event_message))
                   /\ IF LoggedKeys \subseteq DOMAIN event_message
                      THEN Advance(idx)
                      ELSE /\ Raised("KeyError")
                           /\ idx' = idx
    /\ UNCHANGED <<session, pcFilter, version, collector, avail, cursor, srvVersion,
                   arrivals, updt, new_events, lastUpdate, baseLen, waits, seenLen,
                   released, serVars>>

\* the task is cancelled or interrupted while inside the with block
Cancel ==
    /\ pc \in {"baseline", "wait", "read", "publish"}
    /\ Raised("CancelledError")
    /\ UNCHANGED <<session, pcFilter, version, collector, avail, cursor, srvVersion,
                   arrivals, updt, new_events, idx, published, lastUpdate, baseLen, waits, seenLen,
                   released, serVars>>

\* main's finally: event_collector.Remove()
Remove ==
    /\ pc = "finally"
    /\ collector' = "removed"
    /\ pc' = "done"
    /\ UNCHANGED <<exc, session, pcFilter, version, avail, cursor, srvVersion, arrivals,
                   updt, new_events, idx, published, lastUpdate, baseLen, waits, seenLen,
                   released, serVars>>

Next ==
    \/ Arrive
    \/ Construct
    \/ Enter
    \/ BaselineWait
    \/ LoopWait
    \/ ReadNext
    \/ PublishEvent
    \/ Cancel
    \/ Exit
    \/ Remove

Spec == Init /\ [][Next]_vars

(***************************************************************************)
(* The serializer and the envelope as functions of their inputs.           *)
(***************************************************************************)
SerInit ==
    /\ LoopInit
    /\ serPc = "input"
    /\ serVal \in SerInputs
    /\ serInfo \in SerInfos
    /\ serRet = <<"", PyNone>>
    /\ serMsg = EmptyMap

\* name, value = event_to_name_value(val, info)
Serialize ==
    /\ serPc = "input"
    /\ serRet' = event_to_name_value(serVal, serInfo, 0)
    /\ serPc' = "serialized"
    /\ UNCHANGED <<serVal, serInfo, serMsg, loopVars>>

\* create_event_message(value, val, vcenter_name) on a serialized composite
CreateMessage ==
    /\ serPc = "serialized"
    /\ serVal.k = "DataObject"
    /\ serRet[2].t = "dict"
    /\ serMsg' = create_event_message(serRet[2].m, serVal, VcenterName)
    /\ serPc' = "enveloped"
    /\ UNCHANGED <<serVal, serInfo, serRet, loopVars>>

SerNext ==
    \/ Serialize
    \/ CreateMessage

SerSpec == SerInit /\ [][SerNext]_vars

(***************************************************************************)
(* Properties of the subscription and the delivery loop.                   *)
(***************************************************************************)
InWait == pc \in {"baseline", "wait"}

\* C1: the subscription's version is the version of the most recent non-null
\* wait answer, "" before the first one; a null answer leaves it alone, and
\* only a wait step changes it.
C1_VersionTracksLastUpdate ==
    /\ [](version = lastUpdate)
    /\ [][version' # version => (InWait /\ lastUpdate' = version')]_vars
    /\ [][(InWait /\ lastUpdate' = lastUpdate) => version' = version]_vars

\* a null answer came after a non-null one and the version is still the latter's
C1_Witness ==
    /\ pc = "wait"
    /\ published # <<>>
    /\ updt = PyNone
    /\ version = Tok(srvVersion)
    /\ version # ""

\* the envelope the loop builds for an event of the collector
EnvelopeOf(event) ==
    LET fields == event_to_name_value(event, DefaultInfo, 4)[2].m
    IN  [x \in (DOMAIN fields) \cup {"vcenter", "event_id"} |->
           IF x \in DOMAIN fields THEN fields[x]
           ELSE IF x = "vcenter" THEN PyStr(VcenterName)
           ELSE PyStr(IF event.cls = "vim.event.EventEx"
                      THEN <<"com.vmware.vc.HA.Failed">> ELSE <<event.cls>>)]

\* the text of a JSON string literal's body
RECURSIVE JsonUnescape(_)
JsonUnescape(s) ==
    IF s = <<>> THEN <<>>
    ELSE IF Head(s) = "\\" THEN <<s[2]>> \o JsonUnescape(Tail(Tail(s)))
    ELSE <<Head(s)>> \o JsonUnescape(Tail(s))

\* json.loads of a document
RECURSIVE JsonLoads(_)
JsonLoads(d) ==
    IF d.j = "object"
    THEN PyDict([x \in {q[2] : q \in DOMAIN d.members} |->
                   JsonLoads(d.members[<<"\"", x, "\"">>])])
    ELSE IF d.s = <<"null">> THEN PyNone
    ELSE PyStr(JsonUnescape(SubSeq(d.s, 2, Len(d.s) - 1)))

\* C2: the accepted publishes are the envelopes of the events the collector
\* returned, each once and in the collector's order, and whenever a wait is
\* about to be issued every event read so far has been published.
C2_PublishedInOrderOnce ==
    /\ [](/\ pc \in {"wait", "read"} => Len(published) = cursor
          /\ pc = "publish" => Len(published) = cursor - Len(new_events) + idx - 1
          /\ Len(published) <= cursor)
    /\ [][published' # published =>
             /\ pc = "publish"
             /\ Len(published') = Len(published) + 1
             /\ SubSeq(published', 1, Len(published)) = published
             /\ JsonLoads(published'[Len(published')].body)
                    = PyDict(EnvelopeOf(avail[Len(published')]))
             /\ JsonLoads(published'[Len(published')].body).m["key"]
                    = PyStr(<<ToString(Len(published'))>>)]_vars

\* a page of several events was published in full and the loop waits again
C2_Witness ==
    /\ pc = "wait"
    /\ updt # PyNone
    /\ Len(new_events) >= 2
    /\ Len(published) = cursor
    /\ cursor >= Len(new_events)

WaitBlocked ==
    /\ pc = "wait"
    /\ exc = "none"
    /\ version = Tok(srvVersion)

\* C5: unless the loop is cancelled or a call raises, every event that arrives
\* in the collector after the baseline wait is published: the loop is never left
\* waiting for a further change while such an event is still unpublished.
C5_AtLeastOnce ==
    (WaitBlocked /\ baseLen >= 0 /\ Len(avail) > baseLen) => Len(published) >= Len(avail)

\* the event id the claim gives an event
EventIdOf(event) ==
    IF event.cls = "vim.event.EventEx"
    THEN (LET i == CHOOSE j \in 1..Len(event.props) : event.props[j].name = "eventTypeId"
          IN  event.props[i].val.s)
    ELSE <<event.cls>>

\* C11: an event's id is its eventTypeId when it is an EventEx and the name of
\* its type otherwise; every publish carries as routing key the event_id of the
\* envelope it sends, and as body the JSON encoding of that envelope.
C11_RoutingKeyAndBody ==
    [][published' # published =>
         LET sent == published'[Len(published')]
             event == avail[Len(published')]
         IN  /\ sent.routing_key = PyStr(EventIdOf(event))
             /\ JsonLoads(sent.body).t = "dict"
             /\ JsonLoads(sent.body).m["event_id"] = sent.routing_key
             /\ JsonLoads(sent.body) = PyDict(EnvelopeOf(event))]_vars

\* an EventEx was published under its eventTypeId
C11_Witness ==
    /\ published # <<>>
    /\ avail[Len(published)].cls = "vim.event.EventEx"
    /\ published[Len(published)].routing_key = PyStr(<<"com.vmware.vc.HA.Failed">>)

\* C12: the first wait after arming is called with the empty version and its
\* result is dropped: until a second wait call has returned, the loop is never
\* at the collector read or at a publish, the cursor has not moved and nothing
\* was read or published.
C12_BaselineDiscard ==
    /\ pc = "baseline" => version = "" /\ waits = 0
    /\ waits < 2 => /\ pc \notin {"read", "publish"}
                    /\ cursor = 0
                    /\ new_events = <<>>
                    /\ published = <<>>
                    /\ updt = PyNone

\* the baseline wait returned an update while events were in the collector, and
\* the loop went on to its second wait
C12_Witness ==
    /\ pc = "wait"
    /\ waits = 1
    /\ lastUpdate # ""
    /\ avail # <<>>

AMQPError == "pika.exceptions.AMQPError"

\* C13: when basic_publish raises, the error leaves the loop in that step with
\* nothing added to what was published; afterwards nothing more is published,
\* no wait returns, the loop is never again at a wait, read or publish, and the
\* release paths have run by the time main is done.
C13_PublishFailureFatal ==
    /\ [](exc = AMQPError => pc \in {"exit", "finally", "done"})
    /\ [](exc = AMQPError /\ pc = "done" =>
            pcFilter = "destroyed" /\ session = "destroyed" /\ collector = "removed")
    /\ [][exc' = AMQPError /\ exc # AMQPError =>
            pc = "publish" /\ pc' = "exit" /\ published' = published]_vars
    /\ [][exc = AMQPError =>
            published' = published /\ waits' = waits /\ cursor' = cursor]_vars

\* a publish failed after an earlier event of the page went out, with events of
\* the page still behind it
C13_Witness ==
    /\ exc = AMQPError
    /\ pc = "done"
    /\ published # <<>>
    /\ Len(published) + 1 < cursor

\* C14: when WaitForUpdatesEx raises, the fault leaves the loop in that step,
\* no wait has returned, and the version is what it was before the call.
C14_WaitFailure ==
    [][InWait /\ exc' = "vmodl.fault" =>
         version' = version /\ pc' = "exit" /\ waits' = waits /\ lastUpdate' = lastUpdate]_vars

\* a wait raised after the version had advanced and a later wait had timed out
C14_Witness ==
    /\ exc = "vmodl.fault"
    /\ pc = "exit"
    /\ updt = PyNone
    /\ version # ""
    /\ published # <<>>

\* C15: a loop wait that is answered null raises nothing, reads nothing,
\* publishes nothing, leaves the cursor and the version alone, and the loop is
\* at its next wait.
C15_NullWaitNoEffect ==
    [][(/\ pc = "wait"
        /\ version = Tok(srvVersion)
        /\ avail' = avail
        /\ exc' \notin {"vmodl.fault", "CancelledError"}) =>
         /\ exc' = exc
         /\ pc' = "wait"
         /\ updt' = PyNone
         /\ cursor' = cursor
         /\ new_events' = new_events
         /\ published' = published
         /\ version' = version]_vars

\* the loop is back at wait after a null answer, with events read before it
C15_Witness ==
    /\ pc = "wait"
    /\ exc = "none"
    /\ updt = PyNone
    /\ waits = 2
    /\ cursor > 0
    /\ cursor = Len(avail)

\* C17: a publish the broker accepted never makes the loop exit: in the step
\* that adds an event to what was published no exception is raised and the
\* loop is at the next event or at the next wait; and whatever ends the loop
\* is a cancellation or an error of the subscription, the collector, the
\* serializer or the publish call.
C17_AcceptedPublishContinues ==
    /\ [][published' # published => exc' = exc /\ pc' \in {"publish", "wait"}]_vars
    /\ [](exc \in {"none", "CancelledError", "vmodl.fault", "UnboundLocalError", AMQPError})

\* C18: when the loop is back at wait after a non-null answer, with nothing
\* raised, every event the collector held when that answer came was read and
\* published.
C18_PagesUntilDrained ==
    (pc = "wait" /\ exc = "none") => (cursor >= seenLen /\ Len(published) >= seenLen)

\* C19: when control has left the with block, the session made by __init__ and
\* the filter made by __enter__ are destroyed if they were created.
C19_ScopedRelease ==
    pc \in {"finally", "done"} =>
        /\ session # "alive"
        /\ pcFilter # "alive"

Armed == pcFilter = "alive" /\ session = "alive" /\ released = <<>>

Serialized == serPc \in {"serialized", "enveloped"}

\* C3: the envelope holds vcenter and event_id with the configured identity and
\* the event's id whatever keys the body has, and every other body key unchanged.
C3_RoutingKeysKept ==
    serPc = "enveloped" =>
        /\ serMsg["vcenter"] = PyStr(VcenterName)
        /\ serMsg["event_id"] = PyStr(IF serVal.cls = "vim.event.EventEx"
                                      THEN <<"com.vmware.vc.HA.Failed">>
                                      ELSE <<serVal.cls>>)
        /\ \A x \in (DOMAIN serRet[2].m) \ {"vcenter", "event_id"} :
             x \in DOMAIN serMsg /\ serMsg[x] = serRet[2].m[x]

EmptyResults == {PyNone, PyStr(<<>>), PyDict(EmptyMap)}

RECURSIVE Compact(_)
Compact(v) ==
    v.t = "dict" => \A x \in DOMAIN v.m : v.m[x] \notin EmptyResults /\ Compact(v.m[x])

\* C6: a mapping the serializer returns holds, at every depth, no key whose
\* value is null, the empty string or an empty mapping, and a field of the root
\* composite that serializes to one of these is not a key of the result.
C6_Compaction ==
    (Serialized /\ serRet[2].t = "dict") =>
        /\ Compact(serRet[2])
        /\ (serVal.k = "DataObject") =>
             \A i \in 1..Len(serVal.props) :
                LET p == serVal.props[i]
                    v == event_to_name_value(p.val, [name |-> p.name, flags |-> p.flags], 1)[2]
                IN  (p.name \in DOMAIN serRet[2].m) <=> (v \notin EmptyResults)

\* a nested input with empty fields and elements, serialized to a mapping
C6_Witness ==
    /\ Serialized
    /\ serInfo.flags = 0
    /\ serVal = NData("vim.vm.Summary", PyStr(<<"9">>),
                      <<Prop("a", 0, NList(<<DFull, DEmpty, DFull>>)), Prop("b", 0, DNull)>>)
    /\ DOMAIN serRet[2].m = {"a"}

\* the serialized values of the elements of a sequence
ElemResults(items, flags) ==
    [i \in 1..Len(items) |-> event_to_name_value(items[i], [name |-> "", flags |-> flags], 1)[2]]

NonEmpty(v) == v \notin EmptyResults

\* C7: a non-empty sequence serializes to the mapping data1..dataK of its K
\* elements with a non-empty value, in encounter order; an empty one to null.
C7_Renumbering ==
    (Serialized /\ serVal.k = "list") =>
        IF serVal.items = <<>> THEN serRet[2] = PyNone
        ELSE LET kept == SelectSeq(ElemResults(serVal.items, serInfo.flags), NonEmpty)
             IN  /\ serRet[2].t = "dict"
                 /\ DOMAIN serRet[2].m = {"data" \o ToString(i) : i \in 1..Len(kept)}
                 /\ \A i \in 1..Len(kept) : serRet[2].m["data" \o ToString(i)] = kept[i]

\* three elements, the middle one dropped: data1 and data2
C7_Witness ==
    /\ Serialized
    /\ serVal = NList(<<DFull, DEmpty, DFull>>)
    /\ DOMAIN serRet[2].m = {"data1", "data2"}

\* C8: a reference without server id is "Type:key", one with a server id is
\* "Type:serverId:key", and no component is rendered as "None".
C8_ReferenceFormat ==
    (Serialized /\ serVal.k = "ManagedObject") =>
        /\ serRet[2] = IF serVal.serverGuid = PyNone
                       THEN PyStr(<<serVal.cls, ":">> \o serVal.moId.s)
                       ELSE PyStr(<<serVal.cls, ":">> \o serVal.serverGuid.s \o <<":">>
                                  \o serVal.moId.s)
        /\ ~HasTok(serRet[2].s, "None")

\* a cross-server reference has been serialized
C8_Witness ==
    /\ Serialized
    /\ serVal = CrossRef
    /\ serRet[2] = PyStr(<<"vim.VirtualMachine", ":", "guid-1", ":", "vm-1">>)

\* the text of a composite's key in an identity string
KeyText(val) == IF val.key = PyNone THEN <<"None">> ELSE val.key.s

\* C9: a composite under a descriptor with F_LINK set serializes to the string
\* "Type:key" whatever its fields hold; with F_LINK unset it never serializes to
\* a string, and to a mapping whenever the serializer returns.
C9_LinkNeverExpands ==
    (Serialized /\ serVal.k = "DataObject") =>
        IF serInfo.flags \in {1, 3}
        THEN serRet[2] = PyStr(<<serVal.cls, ":">> \o KeyText(serVal))
        ELSE serRet[2].t \in {"dict", "raise"}

\* a linked composite whose field would not serialize gave its identity string
C9_Witness ==
    /\ Serialized
    /\ serInfo.flags = F_LINK
    /\ serVal = NData("vim.vm.Summary", PyStr(<<"9">>), <<Prop("a", 0, NBinary(<<97>>))>>)
    /\ serRet[2] = PyStr(<<"vim.vm.Summary", ":", "9">>)

\* bytes that are UTF-8 text: the blobs of the model are single bytes
Utf8Valid(bytes) == \A i \in 1..Len(bytes) : bytes[i] < 128

Utf8Decode(bytes) == [i \in 1..Len(bytes) |-> IF bytes[i] = 97 THEN "a" ELSE "?"]

\* C10: a binary blob of valid UTF-8 serializes to its decoded text, and only
\* an invalid one raises.
C10_BinaryDecodes ==
    (Serialized /\ serVal.k = "binary") =>
        IF Utf8Valid(serVal.bytes)
        THEN serRet[2] = PyStr(Utf8Decode(serVal.bytes))
        ELSE serRet[2].t = "raise"

BoolToken(b) == IF b THEN <<"true">> ELSE <<"false">>

\* the booleans the serializer visits in an input: a composite handled as a
\* link is not walked
RECURSIVE Bools(_, _)
Bools(val, flags) ==
    CASE val.k = "bool" -> {val.b}
      [] val.k = "DataObject" ->
           IF HasLink(flags) THEN {}
           ELSE UNION {Bools(val.props[i].val, val.props[i].flags) : i \in 1..Len(val.props)}
      [] val.k = "list" -> UNION {Bools(val.items[i], flags) : i \in 1..Len(val.items)}
      [] OTHER -> {}

\* every text held by a result, at any depth
RECURSIVE Texts(_)
Texts(v) ==
    CASE v.t = "str" -> {v.s}
      [] v.t = "dict" -> UNION {Texts(v.m[x]) : x \in DOMAIN v.m}
      [] OTHER -> {}

\* C16: a boolean serializes to the text "true" or "false": as the root value,
\* as a field of the root composite and of a composite below it, and wherever
\* else the input holds one; no result holds Python's True or False.
C16_BooleanToken ==
    (Serialized /\ serRet[2].t # "raise") =>
        /\ serVal.k = "bool" => serRet[2] = PyStr(BoolToken(serVal.b))
        /\ {BoolToken(b) : b \in Bools(serVal, serInfo.flags)} \subseteq Texts(serRet[2])
        /\ Texts(serRet[2]) \cap {<<"True">>, <<"False">>} = {}
        /\ (serVal.k = "DataObject" /\ ~HasLink(serInfo.flags)) =>
             \A i \in 1..Len(serVal.props) :
                LET p == serVal.props[i]
                IN  /\ p.val.k = "bool" => serRet[2].m[p.name] = PyStr(BoolToken(p.val.b))
                    /\ (p.val.k = "DataObject" /\ ~HasLink(p.flags)) =>
                         \A j \in 1..Len(p.val.props) :
                            LET q == p.val.props[j]
                            IN  q.val.k = "bool" =>
                                  serRet[2].m[p.name].m[q.name] = PyStr(BoolToken(q.val.b))

\* both booleans two levels below the root, serialized
C16_Witness ==
    /\ Serialized
    /\ serVal.k = "DataObject"
    /\ Bools(serVal, serInfo.flags) = BOOLEAN
    /\ serRet[2].t = "dict"
    /\ "cfg" \in DOMAIN serRet[2].m
    /\ serRet[2].m["cfg"].t = "dict"
    /\ {"on", "flags"} \subseteq DOMAIN serRet[2].m["cfg"].m

====
